---- MODULE Spec2Model ----
(***************************************************************************)
(* DecoderRNN of project_2_image_captioning/model.py: the teacher-forced   *)
(* forward pass and the greedy sampling loop, over an abstract network.    *)
(*                                                                         *)
(* Tensors are abstracted to small integers: an embed_size vector is a     *)
(* value of Vec, the LSTM's (h, c) pair is a value of LstmState, a row of  *)
(* vocabulary scores is a function Vocab -> 0..MaxScore.  The batch        *)
(* dimension is 1 (one row) throughout, as sample() requires.              *)
(*                                                                         *)
(* The three layers are tables from arguments to results.  The weights    *)
(* are fixed at construction and arbitrary:                                *)
(*   - Spec / SpecFair start from empty tables and reveal an entry the     *)
(*     first time the code evaluates a layer on an argument (any value of  *)
(*     the range), never changing it afterwards: one sample() call over    *)
(*     every network;                                                      *)
(*   - SpecSeq and SpecPair draw total tables from the bounded family      *)
(*     Networks: a caller making forward() and sample() calls one after    *)
(*     the other, and two sample() calls whose loop steps interleave.      *)
(* history records which kinds of call have returned so far, and a         *)
(* sample() frame's `after` is the history when the call began.            *)
(***************************************************************************)
EXTENDS Integers, Sequences, FiniteSets, TLC

\* ------------------------------------------------- network configuration
\* vocab_size, and the number of abstract values of an embed_size vector,
\* of the h and c halves of the hidden_size state, and of a score.
VocabSize == 3
EmbedVals == 2
HiddenVals == 2
CellVals == 2
MaxScore == 1

\* ---------------------------------------------------------------- bounds
MaxLenBound == 3
MaxCaptionLen == 3

\* ------------------------------------------------------ program constants
EndIndex == 1

\* ---------------------------------------------------------------- domains
Vocab == 0..(VocabSize - 1)
Vec == 0..(EmbedVals - 1)
LstmState == (0..(HiddenVals - 1)) \X (0..(CellVals - 1))
Scores == [Vocab -> 0..MaxScore]
None == <<>>
ZeroState == <<0, 0>>
Slots == {1, 2}
Captions == UNION {[1..n -> Vocab] : n \in 0..MaxCaptionLen}

VARIABLES word_embedding_layer, lstm, linear_fc, frame, fwd, history

vars == <<word_embedding_layer, lstm, linear_fc, frame, fwd, history>>

weights == <<word_embedding_layer, lstm, linear_fc>>

\* ------------------------------------------------------------ the layers
\* nn.LSTM called with hx = None starts from the zero state.
LstmHxOnes(hx) == IF hx = None THEN <<HiddenVals - 1, CellVals - 1>> ELSE hx

LstmHx(hx) == IF hx = None THEN ZeroState ELSE hx

\* The LSTM's output for one timestep of a one-row batch is the new h.
Hidden(st) == st[1]

\* torch.max(output, 1): the index of the maximal score, the lowest on ties.
Argmax(sc) ==
    CHOOSE i \in DOMAIN sc :
        /\ \A j \in DOMAIN sc : sc[j] <= sc[i]
        /\ \A j \in DOMAIN sc : j < i => sc[j] < sc[i]

\* The values a layer can return on an argument: the table's entry once it
\* has been evaluated there, any value of the range before.
LayerValues(table, key, range) ==
    IF key \in DOMAIN table THEN {table[key]} ELSE range

\* The table after the layer has returned val on key.
Reveal(table, key, val) ==
    [k \in DOMAIN table \cup {key} |-> IF k = key THEN val ELSE table[k]]

\* A bounded family of fully constructed networks.
EmbTable == [i \in Vocab |-> (i \div 2) % EmbedVals]

LstmTable(w) ==
    [k \in Vec \X LstmState |->
        LET c2 == (k[2][2] + k[1] + w[1]) % CellVals
        IN  <<(w[2] * k[2][1] + c2) % HiddenVals, c2>>]

FcTable(p) ==
    [h \in 0..(HiddenVals - 1) |->
        [v \in Vocab |-> IF v = p[h] THEN MaxScore ELSE 0]]

Networks ==
    {[emb |-> EmbTable, rnn |-> LstmTable(w), fc |-> FcTable(p)] :
        w \in (0..(CellVals - 1)) \X (0..1),
        p \in [0..(HiddenVals - 1) -> Vocab]}

\* ------------------------------------------------------------ sample()
IdleFrame ==
    [pc |-> "idle", arg_inputs |-> None, arg_states |-> None, max_len |-> 0,
     inputs |-> None, states |-> None, i |-> 0, outputs |-> <<>>,
     trace |-> <<>>, after |-> {}]

\* def sample(self, inputs, states=None, max_len=20): outputs = []
\* old is the frame the slot held before; a new call takes nothing from it.
EntryFrameStale(old, x, hx, n) ==
    [pc |-> "loop", arg_inputs |-> x, arg_states |-> hx, max_len |-> n,
     inputs |-> x, states |-> hx, i |-> 0, outputs |-> old.outputs,
     trace |-> <<>>, after |-> history]

EntryFrame(old, x, hx, n) ==
    [pc |-> "loop", arg_inputs |-> x, arg_states |-> hx, max_len |-> n,
     inputs |-> x, states |-> hx, i |-> 0, outputs |-> <<>>,
     trace |-> <<>>, after |-> history]

\* for i in range(max_len): is there a next i?
RangeHasNextInclusive(i, n) == i <= n

RangeHasNext(i, n) == i < n

\* if (predicted_index == 1): break
IsEndNever(predicted_index) == FALSE

IsEndZero(predicted_index) == predicted_index = 0

IsEnd(predicted_index) == predicted_index = EndIndex

\* outputs.append(predicted_index.cpu().numpy()[0].item())
AppendOutputSkipEnd(outputs, predicted_index) ==
    IF predicted_index = EndIndex THEN outputs
    ELSE Append(outputs, predicted_index)

AppendOutput(outputs, predicted_index) == Append(outputs, predicted_index)

\* output, states = self.lstm(inputs, states): the local name is rebound.
RebindStatesDropped(old, st) == old

RebindStates(old, st) == st

\* The frames after call c has rebound its local `states`.
StoreStatesShared(fr, c, st) ==
    [s \in DOMAIN fr |-> [fr[s] EXCEPT !.states = RebindStates(fr[s].states, st)]]

StoreStates(fr, c, st) ==
    [fr EXCEPT ![c].states = RebindStates(fr[c].states, st)]

SampleCall(c) ==
    /\ frame[c].pc \in {"idle", "returned"}
    /\ fwd.pc \in {"idle", "returned"}
    /\ \E x \in Vec, hx \in {None} \cup LstmState, n \in 0..MaxLenBound :
         frame' = [frame EXCEPT ![c] = EntryFrame(frame[c], x, hx, n)]
    /\ fwd' = [pc |-> "idle"]
    /\ UNCHANGED <<weights, history>>

\* One execution of the body of the loop; after a break, return outputs.
SampleStep(c) ==
    LET f == frame[c]
        key == <<f.inputs, LstmHx(f.states)>>
    IN
    /\ f.pc = "loop"
    /\ RangeHasNext(f.i, f.max_len)
    /\ UNCHANGED fwd
    /\ \E st \in LayerValues(lstm, key, LstmState) :
       \E sc \in LayerValues(linear_fc, Hidden(st), Scores) :
         LET predicted_index == Argmax(sc)
             stored == StoreStates(frame, c, st)
             g == [stored[c] EXCEPT
                     !.outputs = AppendOutput(f.outputs, predicted_index),
                     !.trace = Append(f.trace,
                         [x |-> f.inputs, hx |-> f.states, st |-> st,
                          predicted |-> predicted_index])]
         IN
         /\ lstm' = Reveal(lstm, key, st)
         /\ linear_fc' = Reveal(linear_fc, Hidden(st), sc)
         /\ IF IsEnd(predicted_index)
            THEN /\ frame' = [stored EXCEPT ![c] = [g EXCEPT !.pc = "returned"]]
                 /\ history' = history \cup {"sample"}
                 /\ UNCHANGED word_embedding_layer
            ELSE \E e \in LayerValues(word_embedding_layer, predicted_index, Vec) :
                 /\ word_embedding_layer' =
                        Reveal(word_embedding_layer, predicted_index, e)
                 /\ frame' = [stored EXCEPT ![c] =
                        [g EXCEPT !.inputs = e, !.i = f.i + 1]]
                 /\ UNCHANGED history

\* range(max_len) is exhausted: the loop ends without a break; return outputs.
SampleExhausted(c) ==
    /\ frame[c].pc = "loop"
    /\ ~RangeHasNext(frame[c].i, frame[c].max_len)
    /\ frame' = [frame EXCEPT ![c].pc = "returned"]
    /\ history' = history \cup {"sample"}
    /\ UNCHANGED <<weights, fwd>>

\* sample() run alone on the constructed network, as one function.
RECURSIVE SampleAlone(_, _, _, _)
SampleAlone(x, hx, n, outs) ==
    IF n <= 0 THEN outs
    ELSE LET st == lstm[<<x, LstmHx(hx)>>]
             idx == Argmax(linear_fc[Hidden(st)])
         IN  IF idx = EndIndex THEN Append(outs, idx)
             ELSE SampleAlone(word_embedding_layer[idx], st, n - 1,
                              Append(outs, idx))

\* ------------------------------------------------------------ forward()
\* captions[:, :-1]
KeepAll(t) == t

DropFirst(t) == IF Len(t) = 0 THEN t ELSE SubSeq(t, 2, Len(t))

DropLast(t) == IF Len(t) = 0 THEN t ELSE SubSeq(t, 1, Len(t) - 1)

\* self.word_embedding_layer(captions)
Embed(t) == [k \in 1..Len(t) |-> word_embedding_layer[t[k]]]

\* torch.cat((features.unsqueeze(1), captions), dim=1)
Cat(features, t) == <<features>> \o t

\* self.lstm(inputs) over the whole sequence: the state after each timestep.
RECURSIVE LstmRun(_, _)
LstmRun(xs, st) ==
    IF Len(xs) = 0 THEN <<>>
    ELSE LET st2 == lstm[<<Head(xs), st>>]
         IN  <<[x |-> Head(xs), hx |-> st, st |-> st2]>> \o LstmRun(Tail(xs), st2)

\* def forward(self, features, captions)
ForwardCall ==
    /\ fwd.pc \in {"idle", "returned"}
    /\ \A c \in Slots : frame[c].pc \in {"idle", "returned"}
    /\ \E features \in Vec, t \in Captions :
         fwd' = [pc |-> "trim", features |-> features, arg_captions |-> t,
                 captions |-> t]
    /\ frame' = [c \in Slots |-> IdleFrame]
    /\ UNCHANGED <<weights, history>>

\* captions = captions[:, :-1]
ForwardTrim ==
    /\ fwd.pc = "trim"
    /\ fwd' = [fwd EXCEPT !.pc = "embed", !.captions = DropLast(fwd.captions)]
    /\ UNCHANGED <<weights, frame, history>>

\* captions = self.word_embedding_layer(captions)
ForwardEmbed ==
    /\ fwd.pc = "embed"
    /\ fwd' = [pc |-> "cat", features |-> fwd.features,
               arg_captions |-> fwd.arg_captions,
               looked_up |-> fwd.captions,
               captions |-> Embed(fwd.captions)]
    /\ UNCHANGED <<weights, frame, history>>

\* inputs = torch.cat((features.unsqueeze(1), captions), dim=1)
ForwardCat ==
    /\ fwd.pc = "cat"
    /\ fwd' = [pc |-> "lstm", features |-> fwd.features,
               arg_captions |-> fwd.arg_captions,
               looked_up |-> fwd.looked_up,
               captions |-> fwd.captions,
               inputs |-> Cat(fwd.features, fwd.captions)]
    /\ UNCHANGED <<weights, frame, history>>

\* lstm_output, _ = self.lstm(inputs)
ForwardLstm ==
    /\ fwd.pc = "lstm"
    /\ LET run == LstmRun(fwd.inputs, LstmHx(None))
       IN  fwd' = [pc |-> "linear", features |-> fwd.features,
                   arg_captions |-> fwd.arg_captions,
                   looked_up |-> fwd.looked_up,
                   captions |-> fwd.captions,
                   inputs |-> fwd.inputs,
                   trace |-> run,
                   lstm_output |-> [k \in 1..Len(run) |-> Hidden(run[k].st)]]
    /\ UNCHANGED <<weights, frame, history>>

\* outputs = self.linear_fc(lstm_output)
ForwardLinear ==
    /\ fwd.pc = "linear"
    /\ fwd' = [pc |-> "exit", features |-> fwd.features,
               arg_captions |-> fwd.arg_captions,
               looked_up |-> fwd.looked_up,
               captions |-> fwd.captions,
               inputs |-> fwd.inputs,
               trace |-> fwd.trace,
               lstm_output |-> fwd.lstm_output,
               outputs |-> [k \in 1..Len(fwd.lstm_output) |->
                               linear_fc[fwd.lstm_output[k]]]]
    /\ UNCHANGED <<weights, frame, history>>

\* return outputs
ForwardReturn ==
    /\ fwd.pc = "exit"
    /\ fwd' = [fwd EXCEPT !.pc = "returned"]
    /\ history' = history \cup {"forward"}
    /\ UNCHANGED <<weights, frame>>

\* --------------------------------------------------------- specifications
\* After construction, weights not yet observed.
Init ==
    /\ word_embedding_layer = <<>>
    /\ lstm = <<>>
    /\ linear_fc = <<>>
    /\ frame = [c \in Slots |-> IdleFrame]
    /\ fwd = [pc |-> "idle"]
    /\ history = {}

\* After construction, with the weights of one network of the family.
InitNet ==
    /\ \E net \in Networks :
         /\ word_embedding_layer = net.emb
         /\ lstm = net.rnn
         /\ linear_fc = net.fc
    /\ frame = [c \in Slots |-> IdleFrame]
    /\ fwd = [pc |-> "idle"]
    /\ history = {}

\* The first sample() call of slot c.
FirstCall(c) == frame[c].pc = "idle" /\ SampleCall(c)

\* One sample() call on an arbitrary network.
Next ==
    \/ FirstCall(1)
    \/ SampleStep(1)
    \/ SampleExhausted(1)

Spec == Init /\ [][Next]_vars

\* A call that has begun keeps running: sample() is synchronous.
SpecFair == Spec /\ WF_vars(SampleStep(1) \/ SampleExhausted(1))

\* One caller calling forward() and sample() one after the other.
NextSeq ==
    \/ SampleCall(1)
    \/ SampleStep(1)
    \/ SampleExhausted(1)
    \/ ForwardCall
    \/ ForwardTrim
    \/ ForwardEmbed
    \/ ForwardCat
    \/ ForwardLstm
    \/ ForwardLinear
    \/ ForwardReturn

SpecSeq == InitNet /\ [][NextSeq]_vars

\* Two sample() calls on one decoder, their loop steps interleaved.
NextPair ==
    \E c \in Slots :
        \/ FirstCall(c)
        \/ SampleStep(c)
        \/ SampleExhausted(c)

SpecPair == InitNet /\ [][NextPair]_vars
\* ------------------------------------------------------------ properties
Returned(c) == frame[c].pc = "returned"

NoEndPredicted(f) == \A k \in 1..Len(f.trace) : f.trace[k].predicted # EndIndex

\* C1: a sample() call executes the loop body at most max_len times and
\* returns a list of at most max_len indices, whatever the network predicts
\* and whether or not the caller supplies a recurrent state; once begun, the
\* call returns.
C1_IterationsBounded ==
    /\ Len(frame[1].trace) <= frame[1].max_len
    /\ Len(frame[1].outputs) <= frame[1].max_len

C1_SampleTerminates ==
    /\ []C1_IterationsBounded
    /\ (frame[1].pc = "loop") ~> Returned(1)

C1_Witness ==
    /\ Returned(1)
    /\ frame[1].arg_states = None
    /\ frame[1].max_len >= 2
    /\ Len(frame[1].trace) = frame[1].max_len

\* C2: when a step predicts the end index 1, that index is appended and the
\* loop stops in that step: it is the last prediction and the last element
\* of the list, and no earlier element is 1.
C2_EndStopsLoop ==
    LET f == frame[1] IN
    \A k \in 1..Len(f.trace) :
        f.trace[k].predicted = EndIndex =>
            /\ k = Len(f.trace)
            /\ f.pc = "returned"
            /\ Len(f.outputs) = k
            /\ f.outputs[k] = EndIndex
            /\ \A j \in 1..(k - 1) : f.outputs[j] # EndIndex

C2_Witness ==
    /\ Returned(1)
    /\ Len(frame[1].outputs) = 2
    /\ frame[1].outputs[2] = EndIndex
    /\ frame[1].max_len > 2

\* C3: when no step predicts 1, the returned list has exactly max_len
\* elements and none of them is 1.
C3_NoEndFullLength ==
    LET f == frame[1] IN
    (Returned(1) /\ NoEndPredicted(f)) =>
        /\ Len(f.outputs) = f.max_len
        /\ \A k \in 1..Len(f.outputs) : f.outputs[k] # EndIndex

C3_Witness ==
    /\ Returned(1)
    /\ NoEndPredicted(frame[1])
    /\ frame[1].max_len >= 2
    /\ \E k \in 1..Len(frame[1].outputs) : frame[1].outputs[k] = 2

\* C4 as stated: for every max_len the returned list has between 1 and
\* max_len elements.
C4_LengthAtLeastOne ==
    Returned(1) =>
        /\ Len(frame[1].outputs) >= 1
        /\ Len(frame[1].outputs) <= frame[1].max_len

\* C4 amended: for every max_len >= 1 the returned list has between 1 and
\* max_len elements; for max_len = 0 the returned list is empty.
C4_LengthWithinMaxLen ==
    Returned(1) =>
        IF frame[1].max_len >= 1
        THEN /\ Len(frame[1].outputs) >= 1
             /\ Len(frame[1].outputs) <= frame[1].max_len
        ELSE Len(frame[1].outputs) = 0

C4_Witness ==
    /\ Returned(1)
    /\ frame[1].max_len >= 2
    /\ Len(frame[1].outputs) = 1

\* C5: for a caption of length L >= 1, forward() returns exactly L
\* timesteps.
C5_ForwardLength ==
    (fwd.pc = "returned" /\ Len(fwd.arg_captions) >= 1) =>
        Len(fwd.outputs) = Len(fwd.arg_captions)

C5_Witness ==
    /\ fwd.pc = "returned"
    /\ Len(fwd.arg_captions) = 1
    /\ Len(fwd.outputs) = 1
    /\ Len(fwd.captions) = 0

\* C6: what a sample() call returns is a function of the weights, the seed
\* input, the initial recurrent state and max_len alone: it is the list
\* sample() computes from them, whatever forward() and sample() calls the
\* decoder served before, so two calls with the same arguments agree.
C6_ResultFunctionOfArguments ==
    Returned(1) =>
        frame[1].outputs =
            SampleAlone(frame[1].arg_inputs, frame[1].arg_states,
                        frame[1].max_len, <<>>)

C6_Witness ==
    /\ Returned(1)
    /\ frame[1].after = {"forward", "sample"}
    /\ Len(frame[1].outputs) >= 2

\* The last state of a run of the LSTM, or the state it started from.
LastState(run, st) == IF Len(run) = 0 THEN st ELSE run[Len(run)].st

\* C7: the recurrent input of forward() is the image embedding at timestep
\* 0 and the word embedding of caption token t-1 at timestep t >= 1; the
\* caption's last token is never looked up, and the output at position t is
\* the one computed from the image and caption tokens 0..t-1 alone.
C7_ForwardAlignment ==
    LET cap == fwd.arg_captions
        L == Len(cap)
    IN
    /\ fwd.pc \in {"lstm", "linear", "exit", "returned"} =>
        /\ fwd.looked_up = [t \in 1..(IF L = 0 THEN 0 ELSE L - 1) |-> cap[t]]
        /\ fwd.inputs[1] = fwd.features
        /\ \A t \in 2..Len(fwd.inputs) :
               fwd.inputs[t] = word_embedding_layer[cap[t - 1]]
        /\ L >= 1 => Len(fwd.inputs) = L
    /\ fwd.pc \in {"exit", "returned"} =>
        \A t \in 1..Len(fwd.outputs) :
            fwd.outputs[t] =
                linear_fc[Hidden(LastState(
                    LstmRun(<<fwd.features>> \o
                            [k \in 1..(t - 1) |-> word_embedding_layer[cap[k]]],
                            ZeroState),
                    ZeroState))]

C7_Witness ==
    /\ fwd.pc = "returned"
    /\ Len(fwd.arg_captions) = 3
    /\ fwd.arg_captions[1] # fwd.arg_captions[3]
    /\ word_embedding_layer[fwd.arg_captions[1]] #
           word_embedding_layer[fwd.arg_captions[3]]

\* C8: step 1 of sample() consumes the caller's seed input and recurrent
\* state (the zero state when absent); step k > 1 consumes the word
\* embedding of the index appended at step k-1 and the state step k-1
\* returned; each executed step appends exactly the index it predicted.
C8_StateThreading ==
    LET f == frame[1]
        tr == f.trace
    IN
    /\ Len(f.outputs) = Len(tr)
    /\ \A k \in 1..Len(tr) :
        /\ f.outputs[k] = tr[k].predicted
        /\ tr[k].st = lstm[<<tr[k].x, LstmHx(tr[k].hx)>>]
        /\ tr[k].predicted = Argmax(linear_fc[Hidden(tr[k].st)])
        /\ k = 1 => /\ tr[k].x = f.arg_inputs
                    /\ tr[k].hx = f.arg_states
        /\ k > 1 => /\ tr[k].x = word_embedding_layer[f.outputs[k - 1]]
                    /\ tr[k].hx = tr[k - 1].st
    /\ (f.pc = "loop" /\ Len(tr) > 0) =>
        /\ f.i = Len(tr)
        /\ f.states = tr[Len(tr)].st
        /\ f.inputs = word_embedding_layer[f.outputs[Len(tr)]]

C8_Witness ==
    /\ Returned(1)
    /\ Len(frame[1].trace) = 3
    /\ frame[1].arg_states # None
    /\ frame[1].trace[2].st # frame[1].trace[1].st

\* C9: with the steps of two sample() calls interleaved in any order, each
\* call's list is at every step the list the call alone has after as many
\* steps, and the list it returns is the list it returns alone.
C9_InterleavedAsAlone ==
    \A c \in Slots :
        LET f == frame[c] IN
        f.pc # "idle" =>
            /\ f.outputs =
                   SampleAlone(f.arg_inputs, f.arg_states, Len(f.trace), <<>>)
            /\ Returned(c) =>
                   f.outputs =
                       SampleAlone(f.arg_inputs, f.arg_states, f.max_len, <<>>)

C9_Witness ==
    /\ frame[1].pc = "loop" /\ Len(frame[1].trace) = 2
    /\ frame[2].pc = "loop" /\ Len(frame[2].trace) = 2
    /\ frame[1].outputs # frame[2].outputs
    /\ frame[1].states # frame[2].states

\* C10: forward() leaves the caller's caption tensor and embedding batch as
\* they were passed and writes no weight, and every call, also one that
\* follows earlier calls, starts the recurrence from the zero state.
C10_ZeroStart ==
    fwd.pc \in {"linear", "exit", "returned"} => fwd.trace[1].hx = ZeroState

C10_CallerUnchanged ==
    fwd.pc \notin {"idle", "returned"} =>
        /\ fwd'.arg_captions = fwd.arg_captions
        /\ fwd'.features = fwd.features
        /\ weights' = weights

C10_ForwardFrame == []C10_ZeroStart /\ [][C10_CallerUnchanged]_vars

C10_Witness ==
    /\ fwd.pc = "exit"
    /\ history = {"forward", "sample"}
    /\ Len(fwd.arg_captions) >= 2
    /\ fwd.captions # fwd.arg_captions
    /\ fwd.trace[Len(fwd.trace)].st # ZeroState
====
